---- MODULE Spec2Model ----
(***************************************************************************)
(* CourseMate backend: the hybrid retrieval engine.                        *)
(*   backend/app/search.py  rrf (Reciprocal Rank Fusion)                   *)
(*   backend/app/main.py    /ingest, /ingest_pdf, /search_hybrid           *)
(*   backend/app/embeddings.py  embed                                      *)
(* Three specifications:                                                   *)
(*   Spec       the request handlers over the chunk store (Postgres) and   *)
(*              the lexical index (Meilisearch)                            *)
(*   SpecRrf    the pure function rrf and the truncation of its result     *)
(*   SpecChunk  the paragraph chunking expression of /ingest               *)
(* Texts are sequences of one-character strings.  rrf's float scores are   *)
(* modelled as exact fractions <<numerator, denominator>>.                 *)
(***************************************************************************)
EXTENDS Integers, Sequences, FiniteSets, TLC

VARIABLES documents, chunks, docSeq, chunkSeq, lexical, last, fuse, para

vars == <<documents, chunks, docSeq, chunkSeq, lexical, last, fuse, para>>

sysVars == <<documents, chunks, docSeq, chunkSeq, lexical, last>>

(***************************************************************************)
(* Bounds of the model.                                                    *)
(***************************************************************************)
\* ids that occur in the ranked lists given to rrf (SpecRrf)
MaxId == 3
\* length of a ranked list given to rrf, and the largest limit (SpecRrf)
MaxRank == 3
\* length of a raw text given to the paragraph chunker (SpecChunk)
MaxText == 5
\* number of Document rows the id sequence hands out (Spec)
MaxDocs == 2
\* largest req.k of a hybrid search (SpecSearch)
MaxK == 2
\* number of rows of the chunks table when a search arrives (SpecSearch)
MaxStore == 2
\* ids the lexical index may hold when a search arrives (SpecSearch)
MaxLex == 3

\* search_hybrid calls rrf(bm25_ids, vec_ids, k=60)
RRF_K == 60

\* SQL NULL / Python None in a nullable Integer column (pages and lines are
\* counted from 1)
None == 0

\* "\n"
NL == "\n"

(***************************************************************************)
(* Small helpers.                                                          *)
(***************************************************************************)
Range(s) == {s[i] : i \in 1..Len(s)}

Min(a, b) == IF a <= b THEN a ELSE b

NoDup(s) == \A i, j \in 1..Len(s) : i # j => s[i] # s[j]

\* the duplicate-free sequences over S of length at most n
DupFreeSeqs(S, n) ==
    {s \in UNION {[1..m -> S] : m \in 0..n} : NoDup(s)}

\* 1-based position of x in the duplicate-free sequence s, 0 if absent
IndexOf(s, x) ==
    IF x \in Range(s) THEN CHOOSE i \in 1..Len(s) : s[i] = x ELSE 0

(***************************************************************************)
(* Fractions: the values of the float expressions of rrf.                  *)
(***************************************************************************)
Zero == <<0, 1>>

FracAdd(a, b) == <<a[1] * b[2] + b[1] * a[2], a[2] * b[2]>>

FracEq(a, b) == a[1] * b[2] = b[1] * a[2]

FracGt(a, b) == a[1] * b[2] > b[1] * a[2]

FracGe(a, b) == a[1] * b[2] >= b[1] * a[2]

(***************************************************************************)
(* search.py rrf.  The dict `score` is a sequence of <<id, score>> items   *)
(* in insertion order (Python dicts keep insertion order).                 *)
(***************************************************************************)
DictHas(d, key) == \E i \in 1..Len(d) : d[i][1] = key

\* score.get(did, 0.0)
DictGet(d, key) ==
    IF DictHas(d, key)
    THEN d[CHOOSE i \in 1..Len(d) : d[i][1] = key][2]
    ELSE Zero

\* score[did] = v : a new key goes last, an old key keeps its place
DictSet(d, key, v) ==
    IF DictHas(d, key)
    THEN [i \in 1..Len(d) |-> IF d[i][1] = key THEN <<key, v>> ELSE d[i]]
    ELSE Append(d, <<key, v>>)

\* 1.0 / (k + r)
Contribution(k, r) == <<1, k + r>>

\* a slip: score[did] = 1.0 / (k + r), the running score forgotten
RECURSIVE AccumulateOverwrite(_, _, _, _)
AccumulateOverwrite(d, lst, k, r) ==
    IF r > Len(lst) THEN d
    ELSE AccumulateOverwrite(DictSet(d, lst[r], Contribution(k, r)), lst, k, r + 1)

\* for r, did in enumerate(lst, start=1): score[did] = score.get(did, 0.0) + 1.0/(k+r)
RECURSIVE AccumulateFrom(_, _, _, _)
AccumulateFrom(d, lst, k, r) ==
    IF r > Len(lst) THEN d
    ELSE AccumulateFrom(
             DictSet(d, lst[r], FracAdd(DictGet(d, lst[r]), Contribution(k, r))),
             lst, k, r + 1)

Accumulate(d, lst, k, r) == AccumulateFrom(d, lst, k, r)

\* the dict after `for lst in [bm25_ranked, vec_ranked]`
RrfScores(bm25_ranked, vec_ranked, k) ==
    Accumulate(Accumulate(<<>>, bm25_ranked, k, 1), vec_ranked, k, 1)

\* place item x in the descending sequence s before the first item it beats
RECURSIVE InsertDesc(_, _)
InsertDesc(s, x) ==
    IF s = <<>> THEN <<x>>
    ELSE IF FracGt(x[2], s[1][2]) THEN <<x>> \o s
    ELSE <<s[1]>> \o InsertDesc(Tail(s), x)

\* a slip: ascending order (reverse=True forgotten)
RECURSIVE InsertAsc(_, _)
InsertAsc(s, x) ==
    IF s = <<>> THEN <<x>>
    ELSE IF FracGt(s[1][2], x[2]) THEN <<x>> \o s
    ELSE <<s[1]>> \o InsertAsc(Tail(s), x)

\* a slip: descending but equal keys reversed (sorted(...)[::-1] of an ascending sort)
RECURSIVE InsertDescRev(_, _)
InsertDescRev(s, x) ==
    IF s = <<>> THEN <<x>>
    ELSE IF FracGe(x[2], s[1][2]) THEN <<x>> \o s
    ELSE <<s[1]>> \o InsertDescRev(Tail(s), x)

RECURSIVE SortAscFrom(_, _, _)
SortAscFrom(items, i, acc) ==
    IF i > Len(items) THEN acc
    ELSE SortAscFrom(items, i + 1, InsertAsc(acc, items[i]))

SortedAscending(items) == SortAscFrom(items, 1, <<>>)

RECURSIVE SortRevFrom(_, _, _)
SortRevFrom(items, i, acc) ==
    IF i > Len(items) THEN acc
    ELSE SortRevFrom(items, i + 1, InsertDescRev(acc, items[i]))

SortedTiesReversed(items) == SortRevFrom(items, 1, <<>>)

RECURSIVE SortDescFrom(_, _, _)
SortDescFrom(items, i, acc) ==
    IF i > Len(items) THEN acc
    ELSE SortDescFrom(items, i + 1, InsertDesc(acc, items[i]))

\* sorted(score.items(), key=lambda x: x[1], reverse=True): stable, so items
\* with equal keys keep the order they have in score.items()
SortedDescending(items) == SortDescFrom(items, 1, <<>>)

rrf(bm25_ranked, vec_ranked, k) ==
    LET ranked == SortedDescending(RrfScores(bm25_ranked, vec_ranked, k))
    IN  [i \in 1..Len(ranked) |-> ranked[i][1]]

\* a slip: one entry too many
TruncateOneMore(s, limit) == SubSeq(s, 1, Min(limit + 1, Len(s)))

\* s[: limit] for limit >= 0
Truncate(s, limit) == SubSeq(s, 1, Min(limit, Len(s)))

(***************************************************************************)
(* main.py ingest, step 2: the paragraph chunking expression               *)
(*   [c.strip() for c in payload.text.split("\n\n") if c.strip()]          *)
(***************************************************************************)
\* the characters str.strip() removes, among those the model's texts hold
Whitespace == {" ", NL, "\t", "\r"}

IsSpace(c) == c \in Whitespace

\* text.split("\n\n") from position i on, cur the piece being read: the
\* separators are found left to right and do not overlap
RECURSIVE SplitFrom(_, _, _)
SplitFrom(s, i, cur) ==
    IF i > Len(s) THEN <<cur>>
    ELSE IF i < Len(s) /\ s[i] = NL /\ s[i + 1] = NL
         THEN <<cur>> \o SplitFrom(s, i + 2, <<>>)
         ELSE SplitFrom(s, i + 1, Append(cur, s[i]))

SplitBlankLine(s) == SplitFrom(s, 1, <<>>)

RECURSIVE LStrip(_)
LStrip(s) ==
    IF s # <<>> /\ IsSpace(Head(s)) THEN LStrip(Tail(s)) ELSE s

RECURSIVE RStrip(_)
RStrip(s) ==
    IF s # <<>> /\ IsSpace(s[Len(s)]) THEN RStrip(SubSeq(s, 1, Len(s) - 1)) ELSE s

\* a slip: c instead of c.strip() as the list element
StripNothing(s) == s

\* c.strip()
Strip(s) == RStrip(LStrip(s))

RECURSIVE StripKeep(_, _)
StripKeep(pieces, i) ==
    IF i > Len(pieces) THEN <<>>
    ELSE IF Strip(pieces[i]) # <<>>
         THEN <<Strip(pieces[i])>> \o StripKeep(pieces, i + 1)
         ELSE StripKeep(pieces, i + 1)

ParagraphChunks(text) == StripKeep(SplitBlankLine(text), 1)

(***************************************************************************)
(* SpecRrf: rrf on duplicate-free ranked lists, then [: limit].            *)
(***************************************************************************)
RankedLists == DupFreeSeqs(1..MaxId, MaxRank)

SmoothingConstants == {0, 1, RRF_K}

NoFuse == [bm25 |-> <<>>, vec |-> <<>>, k |-> 0, limit |-> 0,
           scores |-> <<>>, ranking |-> <<>>, out |-> <<>>, done |-> FALSE]

NoPara == [text |-> <<>>, out |-> <<>>, done |-> FALSE]

NoCall == [op |-> "none", status |-> "none", text |-> <<>>, produced |-> <<>>,
           doc |-> 0, denseAdded |-> {}, lexAdded |-> {},
           k |-> 0, bm25 |-> <<>>, vec |-> <<>>, out |-> <<>>]

SysIdle ==
    /\ documents = {}
    /\ chunks = {}
    /\ docSeq = 0
    /\ chunkSeq = 0
    /\ lexical = {}
    /\ last = NoCall

InitRrf ==
    /\ SysIdle
    /\ para = NoPara
    /\ fuse \in {[NoFuse EXCEPT !.bm25 = a, !.vec = b, !.k = k, !.limit = n] :
                    a \in RankedLists, b \in RankedLists,
                    k \in SmoothingConstants, n \in 0..MaxRank}

Fuse ==
    /\ ~fuse.done
    /\ fuse' = [fuse EXCEPT
                   !.scores = RrfScores(fuse.bm25, fuse.vec, fuse.k),
                   !.ranking = rrf(fuse.bm25, fuse.vec, fuse.k),
                   !.out = Truncate(rrf(fuse.bm25, fuse.vec, fuse.k), fuse.limit),
                   !.done = TRUE]
    /\ UNCHANGED <<sysVars, para>>

NextRrf == Fuse

SpecRrf == InitRrf /\ [][NextRrf]_vars

(***************************************************************************)
(* SpecChunk: the paragraph chunking of a raw text.                        *)
(***************************************************************************)
Alphabet == {"A", "B", " ", NL}

ExampleText == <<"A", NL, NL, "B", NL, NL, NL, "C">>

RawTexts == UNION {[1..m -> Alphabet] : m \in 0..MaxText} \cup {ExampleText}

InitChunk ==
    /\ SysIdle
    /\ fuse = NoFuse
    /\ para \in {[NoPara EXCEPT !.text = t] : t \in RawTexts}

Chunk ==
    /\ ~para.done
    /\ para' = [para EXCEPT !.out = ParagraphChunks(para.text), !.done = TRUE]
    /\ UNCHANGED <<sysVars, fuse>>

NextChunk == Chunk

SpecChunk == InitChunk /\ [][NextChunk]_vars

(***************************************************************************)
(* Spec: the request handlers.  Each action is one whole request.          *)
(*   documents, chunks  the committed rows of the two Postgres tables      *)
(*   docSeq, chunkSeq   the id sequences of the tables (a rolled-back      *)
(*                      INSERT still uses up its id)                       *)
(*   lexical            the primary keys held by the Meilisearch index     *)
(*   last               the last request: its input, what it stored and    *)
(*                      what it answered                                   *)
(***************************************************************************)

\* raw texts posted to /ingest
IngestTexts ==
    {<<>>, <<" ", NL>>, <<"A">>, <<"A", NL, NL, "B">>, <<"A", NL, NL, NL, "B">>}

\* results of extract_chunks_from_pdf: (page, line_start, line_end, text) in
\* reading order
PdfParses ==
    {<<>>,
     <<[page |-> 1, line_start |-> 1, line_end |-> 2, text |-> <<"A">>]>>,
     <<[page |-> 1, line_start |-> 1, line_end |-> 2, text |-> <<"A">>],
       [page |-> 2, line_start |-> 1, line_end |-> 1, text |-> <<"B">>]>>}

\* the raw chunks of /ingest as chunk fields: Chunk(doc_id, text, embedding),
\* page and line span left NULL
RawProduced(raw_chunks) ==
    [i \in 1..Len(raw_chunks) |->
        [page |-> None, line_start |-> None, line_end |-> None, text |-> raw_chunks[i]]]

\* for ..., vec in zip(produced, vectors): db.add(Chunk(...)), nvec the number
\* of vectors; the ids are assigned in order when the rows are inserted
ZipChunks(docId, produced, nvec, firstId) ==
    {[id |-> firstId + i - 1, doc_id |-> docId, page |-> produced[i].page,
      line_start |-> produced[i].line_start, line_end |-> produced[i].line_end,
      text |-> produced[i].text] : i \in 1..Min(Len(produced), nvec)}

\* a slip: the session committed on the way out
CloseCommits(committed, pending) == committed \cup pending

\* get_db: finally db.close() -- what was added or flushed but not committed
\* is rolled back
CloseWithoutCommit(committed, pending) == committed

\* db.commit()
Commit(committed, pending) == committed \cup pending

Ids(rows) == {r.id : r \in rows}

\* ingest_pdf, the loop over rows: the dict names payload.title, and payload
\* is no name of ingest_pdf or of the module, so the first row raises NameError
BuildMeiliDocs(rows) ==
    IF rows = {} THEN [raised |-> FALSE, docs |-> {}]
    ELSE [raised |-> TRUE, docs |-> {}]

\* add_documents: upsert by primary key
AddDocuments(index, docs) == index \cup docs

Init ==
    /\ documents = {}
    /\ chunks = {}
    /\ docSeq = 0
    /\ chunkSeq = 0
    /\ lexical = {}
    /\ last = NoCall
    /\ fuse = NoFuse
    /\ para = NoPara

\* GET /health
Health ==
    /\ last' = [NoCall EXCEPT !.op = "health", !.status = "ok"]
    /\ UNCHANGED <<documents, chunks, docSeq, chunkSeq, lexical, fuse, para>>

\* POST /ingest.  embedOk: embed returned; nvec: how many vectors it returned
\* (len(data["data"]) is the provider's); commitOk: db.commit() went through
\* (a commit that fails may or may not have used up the chunk ids).
Ingest ==
    \E text \in IngestTexts, embedOk \in BOOLEAN, commitOk \in BOOLEAN :
      LET docId == docSeq + 1
          raw_chunks == ParagraphChunks(text)
          produced == RawProduced(raw_chunks)
          call == [NoCall EXCEPT !.op = "ingest", !.text = text,
                                 !.produced = produced, !.doc = docId]
      IN
      /\ docSeq < MaxDocs
      /\ docSeq' = docId
      /\ UNCHANGED <<lexical, fuse, para>>
      /\ IF raw_chunks = <<>>
         THEN /\ documents' = CloseWithoutCommit(documents, {docId})
              /\ chunks' = CloseWithoutCommit(chunks, {})
              /\ chunkSeq' = chunkSeq
              /\ last' = [call EXCEPT !.status = "400"]
         ELSE IF ~embedOk
         THEN /\ documents' = CloseWithoutCommit(documents, {docId})
              /\ chunks' = CloseWithoutCommit(chunks, {})
              /\ chunkSeq' = chunkSeq
              /\ last' = [call EXCEPT !.status = "500"]
         ELSE \E nvec \in 0..Len(raw_chunks) :
              LET added == ZipChunks(docId, produced, nvec, chunkSeq + 1)
              IN
              /\ IF commitOk
                 THEN /\ chunkSeq' = chunkSeq + Cardinality(added)
                      /\ documents' = Commit(documents, {docId})
                      /\ chunks' = Commit(chunks, added)
                      /\ last' = [call EXCEPT !.status = "ok",
                                              !.denseAdded = Ids(added)]
                 ELSE /\ chunkSeq' \in {chunkSeq, chunkSeq + Cardinality(added)}
                      /\ documents' = CloseWithoutCommit(documents, {docId})
                      /\ chunks' = CloseWithoutCommit(chunks, added)
                      /\ last' = [call EXCEPT !.status = "500"]

\* POST /ingest_pdf.  isPdf: the filename ends in .pdf; meiliOk: the
\* add_documents request went through.
IngestPdf ==
    \E isPdf \in BOOLEAN, parsed \in PdfParses,
       embedOk \in BOOLEAN, commitOk \in BOOLEAN, meiliOk \in BOOLEAN :
      LET docId == docSeq + 1
          call == [NoCall EXCEPT !.op = "ingest_pdf"]
          begun == [call EXCEPT !.produced = parsed, !.doc = docId]
      IN
      /\ (isPdf /\ parsed # <<>>) => docSeq < MaxDocs
      /\ UNCHANGED <<fuse, para>>
      /\ IF ~isPdf
         THEN /\ last' = [call EXCEPT !.status = "400"]
              /\ UNCHANGED <<documents, chunks, docSeq, chunkSeq, lexical>>
         ELSE IF parsed = <<>>
         THEN /\ last' = [call EXCEPT !.status = "400"]
              /\ UNCHANGED <<documents, chunks, docSeq, chunkSeq, lexical>>
         ELSE IF ~embedOk
         THEN /\ docSeq' = docId
              /\ documents' = CloseWithoutCommit(documents, {docId})
              /\ chunks' = CloseWithoutCommit(chunks, {})
              /\ last' = [begun EXCEPT !.status = "500"]
              /\ UNCHANGED <<chunkSeq, lexical>>
         ELSE \E nvec \in 0..Len(parsed) :
              LET added == ZipChunks(docId, parsed, nvec, chunkSeq + 1)
              IN
              /\ docSeq' = docId
              /\ IF ~commitOk
                 THEN /\ chunkSeq' \in {chunkSeq, chunkSeq + Cardinality(added)}
                      /\ documents' = CloseWithoutCommit(documents, {docId})
                      /\ chunks' = CloseWithoutCommit(chunks, added)
                      /\ last' = [begun EXCEPT !.status = "500"]
                      /\ UNCHANGED lexical
                 ELSE /\ chunkSeq' = chunkSeq + Cardinality(added)
                      /\ documents' = Commit(documents, {docId})
                      /\ chunks' = Commit(chunks, added)
                      /\ LET rows == {c \in chunks' : c.doc_id = docId}
                             built == BuildMeiliDocs(rows)
                         IN  IF built.raised \/ ~meiliOk
                             THEN /\ lexical' = lexical
                                  /\ last' = [begun EXCEPT !.status = "500",
                                                           !.denseAdded = Ids(added)]
                             ELSE /\ lexical' = AddDocuments(lexical, built.docs)
                                  /\ last' = [begun EXCEPT !.status = "ok",
                                                           !.denseAdded = Ids(added),
                                                           !.lexAdded = built.docs]

\* a slip: the rows returned as the SELECT gives them (here by id)
RECURSIVE HydrateRowOrder(_, _)
HydrateRowOrder(fused_ids, rows) ==
    IF rows = {} THEN <<>>
    ELSE LET r == CHOOSE x \in rows : \A y \in rows : x.id <= y.id
         IN  <<r>> \o HydrateRowOrder(fused_ids, rows \ {r})

\* row_by_id = {r["id"]: r for r in rows};
\* for cid in fused_ids: r = row_by_id.get(cid); if r: out.append(ChunkOut(...))
RECURSIVE HydrateFused(_, _)
HydrateFused(fused_ids, rows) ==
    IF fused_ids = <<>> THEN <<>>
    ELSE LET hit == {r \in rows : r.id = Head(fused_ids)}
         IN  (IF hit = {} THEN <<>> ELSE <<CHOOSE r \in hit : TRUE>>)
                 \o HydrateFused(Tail(fused_ids), rows)

Hydrate(fused_ids, rows) == HydrateFused(fused_ids, rows)

\* POST /search_hybrid.  k: req.k; vec: the ids of the k nearest chunks, in
\* the order of the query's distances; bm25: the ids of at most k hits of the
\* lexical index; ioOk: embed, the SELECTs and the index search went through.
\* The score of a result (a float for display) is left out.
SearchHybrid ==
    \E k \in 0..MaxK, ioOk \in BOOLEAN :
      \E vec \in DupFreeSeqs(Ids(chunks), k), bm25 \in DupFreeSeqs(lexical, k) :
        LET fused_ids == Truncate(rrf(bm25, vec, RRF_K), k)
            rows == {c \in chunks : c.id \in Range(fused_ids)}
            call == [NoCall EXCEPT !.op = "search_hybrid", !.k = k]
        IN
        /\ Len(vec) = Min(k, Cardinality(chunks))
        /\ UNCHANGED <<documents, chunks, docSeq, chunkSeq, lexical, fuse, para>>
        /\ IF ~ioOk
           THEN last' = [call EXCEPT !.status = "500"]
           ELSE last' = [call EXCEPT !.status = "ok", !.bm25 = bm25, !.vec = vec,
                                     !.out = IF fused_ids = <<>> THEN <<>>
                                             ELSE Hydrate(fused_ids, rows)]

\* The requests that write.  search_hybrid writes nothing and reads only the
\* committed rows and the index, so it is checked from every content of the
\* two (SpecSearch) rather than interleaved here.
Next == Ingest \/ IngestPdf \/ Health

Spec == Init /\ [][Next]_vars

\* requests keep being served: a handler that is called runs to its end
FairSpec == Spec /\ WF_vars(Next)

(***************************************************************************)
(* SpecSearch: one /search_hybrid request against a chunk store of n rows  *)
(* (ids 1..n, the ids the sequence hands out) and a lexical index that     *)
(* holds any ids, among them ids of no row (index drift).                  *)
(***************************************************************************)
StoredRow(i) ==
    [id |-> i, doc_id |-> 1, page |-> None, line_start |-> None, line_end |-> None,
     text |-> IF i % 2 = 1 THEN <<"A">> ELSE <<"B">>]

InitSearch ==
    /\ \E n \in 0..MaxStore :
          /\ chunks = {StoredRow(i) : i \in 1..n}
          /\ chunkSeq = n
          /\ documents = IF n = 0 THEN {} ELSE {1}
          /\ docSeq = IF n = 0 THEN 0 ELSE 1
    /\ lexical \in SUBSET (1..MaxLex)
    /\ last = NoCall
    /\ fuse = NoFuse
    /\ para = NoPara

SearchOnce == last.op = "none" /\ SearchHybrid

NextSearch == SearchOnce

SpecSearch == InitSearch /\ [][NextSearch]_vars

(***************************************************************************)
(* Properties of rrf (SpecRrf).                                            *)
(***************************************************************************)
\* the contribution of one list to an id: 1/(k + rank), 0 when absent
ListScore(lst, id, k) ==
    IF IndexOf(lst, id) = 0 THEN Zero ELSE <<1, k + IndexOf(lst, id)>>

\* the fused score of an id as the formula states it
FusedScore(id, a, b, k) == FracAdd(ListScore(a, id, k), ListScore(b, id, k))

FuseScoreOf(id) == FusedScore(id, fuse.bm25, fuse.vec, fuse.k)

\* C4: rrf accumulates for every id the sum over the two lists of 1/(k + r)
\* (0 for a list the id is absent from) and returns the ids in non-increasing
\* order of that score; lists [1,2,3] and [3,1,2] with k=60 give 1, 3, 2 with
\* scores 1/61+1/62, 1/63+1/61 and 1/62+1/63.
C4_RrfOrderedByFusedScore ==
    fuse.done =>
        /\ \A i \in 1..Len(fuse.scores) :
              FracEq(fuse.scores[i][2], FuseScoreOf(fuse.scores[i][1]))
        /\ \A i, j \in 1..Len(fuse.ranking) :
              i < j => FracGe(FuseScoreOf(fuse.ranking[i]), FuseScoreOf(fuse.ranking[j]))
        /\ (fuse.bm25 = <<1, 2, 3>> /\ fuse.vec = <<3, 1, 2>> /\ fuse.k = 60) =>
              /\ fuse.ranking = <<1, 3, 2>>
              /\ FracEq(DictGet(fuse.scores, 1), <<123, 3782>>)
              /\ FracEq(DictGet(fuse.scores, 3), <<124, 3843>>)
              /\ FracEq(DictGet(fuse.scores, 2), <<125, 3906>>)

C4_Witness ==
    /\ fuse.done
    /\ fuse.bm25 = <<1, 2, 3>>
    /\ fuse.vec = <<3, 1, 2>>
    /\ fuse.k = 60
    /\ fuse.ranking = <<1, 3, 2>>

\* C5: two ids with exactly equal fused scores are emitted in the precedence
\* of the first argument: by rank in bm25_ranked when both are in it, an id of
\* bm25_ranked before an id that is only in vec_ranked, and by rank in
\* vec_ranked when both are only in vec_ranked.
C5_TieOrderFollowsFirstList ==
    fuse.done =>
        \A i, j \in 1..Len(fuse.ranking) :
            (i < j /\ FracEq(FuseScoreOf(fuse.ranking[i]), FuseScoreOf(fuse.ranking[j]))) =>
                LET a == fuse.ranking[i]
                    b == fuse.ranking[j]
                    ra == IndexOf(fuse.bm25, a)
                    rb == IndexOf(fuse.bm25, b)
                IN  /\ (ra > 0 /\ rb > 0) => ra < rb
                    /\ ~(ra = 0 /\ rb > 0)
                    /\ (ra = 0 /\ rb = 0) => IndexOf(fuse.vec, a) < IndexOf(fuse.vec, b)

C5_Witness ==
    /\ fuse.done
    /\ \E i, j \in 1..Len(fuse.ranking) :
          /\ i < j
          /\ FracEq(FuseScoreOf(fuse.ranking[i]), FuseScoreOf(fuse.ranking[j]))
          /\ IndexOf(fuse.bm25, fuse.ranking[i]) > 0
          /\ IndexOf(fuse.bm25, fuse.ranking[j]) = 0
    /\ \E i, j \in 1..Len(fuse.ranking) :
          /\ i < j
          /\ FracEq(FuseScoreOf(fuse.ranking[i]), FuseScoreOf(fuse.ranking[j]))
          /\ IndexOf(fuse.bm25, fuse.ranking[i]) > 0
          /\ IndexOf(fuse.bm25, fuse.ranking[j]) > 0

\* C6: every id has the same score in rrf(A, B, k) as in rrf(B, A, k); the two
\* outputs hold the same ids and order two ids differently only when their
\* scores are exactly equal.
C6_ScoresSymmetric ==
    fuse.done =>
        LET swappedScores == RrfScores(fuse.vec, fuse.bm25, fuse.k)
            swapped == rrf(fuse.vec, fuse.bm25, fuse.k)
        IN  /\ \A id \in 1..MaxId :
                  /\ DictHas(fuse.scores, id) <=> DictHas(swappedScores, id)
                  /\ FracEq(DictGet(fuse.scores, id), DictGet(swappedScores, id))
            /\ Range(swapped) = Range(fuse.ranking)
            /\ Len(swapped) = Len(fuse.ranking)
            /\ \A a, b \in Range(fuse.ranking) :
                  (/\ IndexOf(fuse.ranking, a) < IndexOf(fuse.ranking, b)
                   /\ IndexOf(swapped, b) < IndexOf(swapped, a))
                      => FracEq(DictGet(fuse.scores, a), DictGet(fuse.scores, b))

C6_Witness ==
    /\ fuse.done
    /\ fuse.bm25 # fuse.vec
    /\ Range(fuse.bm25) \cap Range(fuse.vec) # {}
    /\ rrf(fuse.vec, fuse.bm25, fuse.k) # fuse.ranking

\* C7: the ranking holds every id of either list exactly once and no other
\* id; truncated to limit it is the first min(limit, number of distinct ids)
\* entries of the ranking; two empty lists give an empty result.
C7_UnionThenTruncate ==
    fuse.done =>
        LET ids == Range(fuse.bm25) \cup Range(fuse.vec)
        IN  /\ Range(fuse.ranking) = ids
            /\ Len(fuse.ranking) = Cardinality(ids)
            /\ NoDup(fuse.ranking)
            /\ Len(fuse.out) = Min(fuse.limit, Cardinality(ids))
            /\ \A i \in 1..Len(fuse.out) : fuse.out[i] = fuse.ranking[i]
            /\ (fuse.bm25 = <<>> /\ fuse.vec = <<>>) => fuse.out = <<>>

C7_Witness ==
    /\ fuse.done
    /\ fuse.limit > 0
    /\ fuse.limit < Len(fuse.ranking)
    /\ Range(fuse.bm25) \cap Range(fuse.vec) # {}
    /\ Range(fuse.bm25) # Range(fuse.vec)
    /\ Len(fuse.out) = fuse.limit

(***************************************************************************)
(* Properties of the paragraph chunking (SpecChunk).                       *)
(***************************************************************************)
\* position i of s is a newline of a run of two or more newlines
InRun(s, i) ==
    /\ s[i] = NL
    /\ \/ (i > 1 /\ s[i - 1] = NL)
       \/ (i < Len(s) /\ s[i + 1] = NL)

\* the maximal stretches <<a, b>> of s between runs of two or more newlines
\* that hold a character other than whitespace
Paragraphs(s) ==
    {p \in (1..Len(s)) \X (1..Len(s)) :
        /\ p[1] <= p[2]
        /\ \A i \in p[1]..p[2] : ~InRun(s, i)
        /\ (p[1] = 1 \/ InRun(s, p[1] - 1))
        /\ (p[2] = Len(s) \/ InRun(s, p[2] + 1))
        /\ \E i \in p[1]..p[2] : ~IsSpace(s[i])}

\* stretch p of s without its leading and trailing whitespace
Trimmed(s, p) ==
    LET solid == {i \in p[1]..p[2] : ~IsSpace(s[i])}
        first == CHOOSE i \in solid : \A j \in solid : i <= j
        final == CHOOSE i \in solid : \A j \in solid : j <= i
    IN  SubSeq(s, first, final)

\* C8: a text with a non-blank line gives a non-empty chunk sequence; every
\* chunk is non-empty with no leading or trailing whitespace; the chunks are,
\* in text order, the trimmed stretches between runs of two or more newlines;
\* "A\n\nB\n\n\nC" gives ["A", "B", "C"].
C8_ParagraphChunks ==
    para.done =>
        LET ps == Paragraphs(para.text)
        IN  /\ (\E i \in 1..Len(para.text) : ~IsSpace(para.text[i])) => para.out # <<>>
            /\ \A i \in 1..Len(para.out) :
                  /\ para.out[i] # <<>>
                  /\ ~IsSpace(para.out[i][1])
                  /\ ~IsSpace(para.out[i][Len(para.out[i])])
            /\ Len(para.out) = Cardinality(ps)
            /\ \A p \in ps :
                  para.out[1 + Cardinality({q \in ps : q[1] < p[1]})] = Trimmed(para.text, p)
            /\ para.text = ExampleText => para.out = <<<<"A">>, <<"B">>, <<"C">>>>

C8_Witness ==
    /\ para.done
    /\ para.text = ExampleText
    /\ para.out = <<<<"A">>, <<"B">>, <<"C">>>>

\* a text whose chunks had to be trimmed after a run of three newlines
C8_WitnessOddRun ==
    /\ para.done
    /\ Len(para.out) = 2
    /\ \E i \in 1..Len(para.text) - 2 :
          para.text[i] = NL /\ para.text[i + 1] = NL /\ para.text[i + 2] = NL

(***************************************************************************)
(* Properties of the ingest handlers (Spec, FairSpec).                     *)
(***************************************************************************)
IngestOps == {"ingest", "ingest_pdf"}

\* the committed rows of the chunks table that the last request's Document owns
LastStored == {c \in chunks : c.doc_id = last.doc}

\* C1: a successful ingest whose chunker gave N chunks added exactly N chunk
\* ids to the chunks table and the same N ids to the lexical index, and the
\* row of each id holds the text and page/line span the chunker gave.
C1_IngestWritesBothIndexes ==
    (last.op \in IngestOps /\ last.status = "ok") =>
        /\ Cardinality(last.denseAdded) = Len(last.produced)
        /\ last.lexAdded = last.denseAdded
        /\ last.lexAdded \subseteq lexical
        /\ \A i \in 1..Len(last.produced) :
              \E c \in chunks :
                  /\ c.id \in last.denseAdded
                  /\ c.doc_id = last.doc
                  /\ c.text = last.produced[i].text
                  /\ c.page = last.produced[i].page
                  /\ c.line_start = last.produced[i].line_start
                  /\ c.line_end = last.produced[i].line_end

\* C2: after an ingest the store holds either no Document of the call (and
\* none of its chunks) or the Document with all N chunks, and a call that did
\* not store all N chunks did not answer with success.
C2_IngestAllOrNothing ==
    last.op \in IngestOps =>
        /\ \/ (last.doc \notin documents /\ LastStored = {})
           \/ (last.doc \in documents /\ Cardinality(LastStored) = Len(last.produced))
        /\ Cardinality(LastStored) # Len(last.produced) => last.status # "ok"

\* the chunk ids the sequence can hand out: at most two chunks per Document
\* (IngestTexts, PdfParses)
ChunkIds == 1..(2 * MaxDocs)

\* C3: a chunk that is queryable in the dense store is eventually in the
\* lexical index as well (the code keeps no schedule of pending index writes,
\* so being in the index is the only way to meet this).
C3_DualIndexEventuallyConsistent ==
    \A id \in ChunkIds : [](id \in Ids(chunks) => <>(id \in lexical))

\* all characters of the text are whitespace (or there are none)
IsBlank(text) == \A i \in 1..Len(text) : IsSpace(text[i])

\* C9: an /ingest of an empty or all-whitespace text answers 400 and leaves
\* the documents table, the chunks table and the lexical index as they were;
\* the Document row it flushed (its id is used up) is not in the store.
C9_BlankIngestRejected ==
    [][(last'.op = "ingest" /\ IsBlank(last'.text) /\ docSeq' # docSeq) =>
          /\ last'.status = "400"
          /\ last'.doc = docSeq'
          /\ last'.doc \notin documents'
          /\ documents' = documents
          /\ chunks' = chunks
          /\ lexical' = lexical
          /\ \A d \in documents' : d # last'.doc]_vars

C9_Witness ==
    /\ last.op = "ingest"
    /\ last.text # <<>>
    /\ IsBlank(last.text)
    /\ last.status = "400"
    /\ last.doc = docSeq
    /\ last.doc > 1
    /\ documents # {}

(***************************************************************************)
(* Properties of /search_hybrid (SpecSearch).                              *)
(***************************************************************************)
\* C10: a hybrid search with limit k answers at most k results, no chunk id
\* twice, in the order of the fused ranking of the lexical and dense lists;
\* the results are exactly the rows of those of the first k fused ids that the
\* chunk store holds; a fused id of no row is left out and the answer is
\* still a success.
C10_HybridResults ==
    (last.op = "search_hybrid" /\ last.status = "ok") =>
        LET ranking == rrf(last.bm25, last.vec, RRF_K)
            firstK == {ranking[i] : i \in 1..Min(last.k, Len(ranking))}
            ids == [i \in 1..Len(last.out) |-> last.out[i].id]
        IN  /\ Len(last.out) <= last.k
            /\ NoDup(ids)
            /\ Range(ids) = firstK \cap Ids(chunks)
            /\ \A i, j \in 1..Len(ids) :
                  i < j => IndexOf(ranking, ids[i]) < IndexOf(ranking, ids[j])
            /\ \A i \in 1..Len(last.out) : last.out[i] \in chunks

C10_Witness ==
    /\ last.op = "search_hybrid"
    /\ last.status = "ok"
    /\ Len(last.out) = 2
    /\ last.out[1].id > last.out[2].id
    /\ \E id \in Range(last.bm25) : id \notin Ids(chunks)

\* a fused id of no row among the first k, left out of a successful answer
C10_WitnessDrift ==
    /\ last.op = "search_hybrid"
    /\ last.status = "ok"
    /\ last.k = 2
    /\ Len(last.out) = 1
    /\ LET ranking == rrf(last.bm25, last.vec, RRF_K)
       IN  Len(ranking) >= 2 /\ ranking[1] \notin Ids(chunks)

====
